---- MODULE Spec2Model ----
(***************************************************************************)
(* Model of the sandboxed execution and import-resolution pipeline of the  *)
(* Three.js IDE: the import parser (importParser), the CDN resolver        *)
(* (cdnResolver), the importmap generator (importmapGenerator) and the     *)
(* message bridge of the App component.                                    *)
(*                                                                         *)
(* Strings are TLA+ strings; the regular expressions of the source are     *)
(* evaluated character by character by the operators below.                *)
(***************************************************************************)
EXTENDS Integers, Sequences, FiniteSets, TLC

(***************************************************************************)
(* String primitives (String.prototype.startsWith, endsWith, indexOf,      *)
(* includes, trim, split).                                                 *)
(***************************************************************************)
CharAt(s, i) == SubSeq(s, i, i)

\* the element of a one-element set: {F(x) : x \in {e}} computes e once, however
\* often F uses x
Once(S) == CHOOSE r \in S : TRUE

StartsWithAt(s, p, i) ==
    /\ i >= 1
    /\ i + Len(p) - 1 <= Len(s)
    /\ SubSeq(s, i, i + Len(p) - 1) = p

StartsWith(s, p) == StartsWithAt(s, p, 1)

EndsWith(s, p) == Len(s) >= Len(p) /\ StartsWithAt(s, p, Len(s) - Len(p) + 1)

\* first index >= from at which p occurs in s, 0 when there is none
IndexOf(s, p, from) ==
    LET hits == {i \in from..(Len(s) - Len(p) + 1) : StartsWithAt(s, p, i)}
    IN IF hits = {} THEN 0 ELSE CHOOSE i \in hits : \A j \in hits : i <= j

Includes(s, p) == IndexOf(s, p, 1) # 0

SpaceChars == {" ", "\n", "\t", "\r"}

WordString == "abcdefghijklmnopqrstuvwxyzABCDEFGHIJKLMNOPQRSTUVWXYZ0123456789_"

WordChars == {CharAt(WordString, i) : i \in 1..Len(WordString)}

VersionString == "0123456789."

VersionChars == {CharAt(VersionString, i) : i \in 1..Len(VersionString)}

QuoteChars == {"'", "\""}

\* membership of a one-character string in a regex character class
InClass(c, cls) ==
    CASE cls = "space" -> c \in SpaceChars
      [] cls = "word" -> c \in WordChars
      [] cls = "quote" -> c \in QuoteChars
      [] cls = "notquote" -> c \notin QuoteChars
      [] cls = "notbrace" -> c # "}"
      [] cls = "notnewline" -> c # "\n"
      [] cls = "version" -> c \in VersionChars
      [] cls = "digit" -> c \in VersionChars \ {"."}
      [] cls = "pkgchar" -> c \notin {"@", "/"}
      [] OTHER -> FALSE

\* index one past the longest run of cls characters starting at i
RunEnd(s, i, cls) ==
    LET stops == {j \in i..Len(s) : ~InClass(CharAt(s, j), cls)}
    IN IF stops = {} THEN Len(s) + 1 ELSE CHOOSE j \in stops : \A k \in stops : j <= k

Trim(s) ==
    LET keep == {i \in 1..Len(s) : CharAt(s, i) \notin SpaceChars}
    IN IF keep = {} THEN ""
       ELSE SubSeq(s, CHOOSE i \in keep : \A j \in keep : i <= j,
                      CHOOSE i \in keep : \A j \in keep : i >= j)

RECURSIVE SplitOn(_, _)
\* String.prototype.split with a one-character separator
SplitOn(s, sep) ==
    LET i == IndexOf(s, sep, 1)
    IN IF i = 0 THEN <<s>>
       ELSE <<SubSeq(s, 1, i - 1)>> \o SplitOn(SubSeq(s, i + 1, Len(s)), sep)

SelectNonEmpty(parts) == SelectSeq(parts, LAMBDA p : p # "")

(***************************************************************************)
(* A small regular-expression engine for the patterns of parseImports.     *)
(* A pattern is a sequence of elements: a literal, one character of a      *)
(* class, or a greedy run (+) of a class, optionally capturing.  In every  *)
(* pattern of the source the element after a run starts with a character   *)
(* outside the run's class, so the greedy match needs no backtracking.     *)
(***************************************************************************)
Lit(v) == [k |-> "lit", v |-> v, cls |-> "", cap |-> FALSE]
One(cls) == [k |-> "one", v |-> "", cls |-> cls, cap |-> FALSE]
Plus(cls) == [k |-> "plus", v |-> "", cls |-> cls, cap |-> FALSE]
Cap(cls) == [k |-> "plus", v |-> "", cls |-> cls, cap |-> TRUE]

NoMatch == [ok |-> FALSE, start |-> 0, end |-> 0, caps |-> <<>>]

RECURSIVE MatchFrom(_, _, _, _, _, _)
\* match elements e.. of pat against s at position pos; start is where the match began
MatchFrom(s, start, pos, pat, e, caps) ==
    IF e > Len(pat) THEN [ok |-> TRUE, start |-> start, end |-> pos, caps |-> caps]
    ELSE LET el == pat[e] IN
         CASE el.k = "lit" ->
                IF StartsWithAt(s, el.v, pos)
                THEN MatchFrom(s, start, pos + Len(el.v), pat, e + 1, caps)
                ELSE NoMatch
           [] el.k = "one" ->
                IF pos <= Len(s) /\ InClass(CharAt(s, pos), el.cls)
                THEN MatchFrom(s, start, pos + 1, pat, e + 1, caps)
                ELSE NoMatch
           [] el.k = "plus" ->
                LET stop == RunEnd(s, pos, el.cls) IN
                IF stop = pos THEN NoMatch
                ELSE MatchFrom(s, start, stop, pat, e + 1,
                               IF el.cap THEN Append(caps, SubSeq(s, pos, stop - 1)) ELSE caps)

\* RegExp.prototype.exec: the leftmost match starting at or after from
Exec(s, pat, from) ==
    LET hits == {i \in from..Len(s) : MatchFrom(s, i, i, pat, 1, <<>>).ok}
    IN IF hits = {} THEN NoMatch
       ELSE MatchFrom(s, CHOOSE i \in hits : \A j \in hits : i <= j,
                         CHOOSE i \in hits : \A j \in hits : i <= j, pat, 1, <<>>)

RECURSIVE ExecAll(_, _, _)
\* the successive matches of a /g pattern (the while loop over pattern.exec)
ExecAll(s, pat, from) ==
    Once({IF ~m.ok THEN <<>> ELSE <<m>> \o ExecAll(s, pat, m.end) : m \in {Exec(s, pat, from)}})

FullMatch(s, m) == SubSeq(s, m.start, m.end - 1)

(***************************************************************************)
(* importParser: removeComments                                            *)
(***************************************************************************)
RECURSIVE RemoveBlockComments(_)
\* code.replace(/\/\*[\s\S]*?\*\//g, '')
RemoveBlockComments(s) ==
    LET open == IndexOf(s, "/*", 1)
        close == IF open = 0 THEN 0 ELSE IndexOf(s, "*/", open + 2)
    IN IF open = 0 \/ close = 0 THEN s
       ELSE SubSeq(s, 1, open - 1) \o RemoveBlockComments(SubSeq(s, close + 2, Len(s)))

\* end (exclusive) of the line that contains position i
LineEnd(s, i) == RunEnd(s, i, "notnewline")

\* a `//` at i is removed only when the rest of its line holds no quote
LineCommentAt(s, i) ==
    /\ StartsWithAt(s, "//", i)
    /\ \A j \in (i + 2)..(LineEnd(s, i + 2) - 1) : CharAt(s, j) \notin QuoteChars

RECURSIVE RemoveLineComments(_)
\* result.replace(/\/\/(?![^\n]*['"])[^\n]*/g, '')
RemoveLineComments(s) ==
    LET hits == {i \in 1..Len(s) : LineCommentAt(s, i)}
    IN IF hits = {} THEN s
       ELSE LET i == CHOOSE h \in hits : \A j \in hits : h <= j
                stop == LineEnd(s, i + 2)
            IN SubSeq(s, 1, i - 1) \o RemoveLineComments(SubSeq(s, stop, Len(s)))

removeComments(jsCode) == Once({RemoveLineComments(result) : result \in {RemoveBlockComments(jsCode)}})

(***************************************************************************)
(* importParser: parseImports and its helpers                              *)
(***************************************************************************)
\* /@([\d.]+)/ : the version after the first @ that is followed by a digit or dot
extractVersionFromUrl(url) ==
    LET m == Exec(url, <<Lit("@"), Cap("version")>>, 1)
    IN IF m.ok THEN m.caps[1] ELSE ""

\* an absent version (undefined) is the empty string
createImportStatement(source, specifiers, type, rawStatement) ==
    LET isUrl == StartsWith(source, "http://") \/ StartsWith(source, "https://")
    IN [source |-> source,
        specifiers |-> specifiers,
        isUrl |-> isUrl,
        version |-> IF isUrl THEN extractVersionFromUrl(source) ELSE "",
        rawStatement |-> rawStatement,
        type |-> type]

\* s.trim().split(/\s+as\s+/)[0]
StripAlias(s) ==
    LET t == Trim(s)
        m == Exec(t, <<Plus("space"), Lit("as"), Plus("space")>>, 1)
    IN IF m.ok THEN SubSeq(t, 1, m.start - 1) ELSE t

NamedSpecifiers(specifiersStr) ==
    LET parts == SplitOn(specifiersStr, ",")
    IN [i \in 1..Len(parts) |-> StripAlias(parts[i])]

Thrown == [throws |-> TRUE]

\* match[2] is undefined for the one-group pattern: createImportStatement then
\* throws on source.startsWith
parseImportMatch(s, m) ==
    LET fullMatch == FullMatch(s, m)
        length == Len(m.caps) + 1
    IN IF Includes(fullMatch, "* as")
       THEN IF length < 3 THEN Thrown
            ELSE [throws |-> FALSE,
                  stmt |-> createImportStatement(m.caps[2], <<m.caps[1]>>, "namespace", fullMatch)]
       ELSE IF Includes(fullMatch, "{")
       THEN IF length < 3 THEN Thrown
            ELSE [throws |-> FALSE,
                  stmt |-> createImportStatement(m.caps[2], NamedSpecifiers(m.caps[1]), "named", fullMatch)]
       ELSE IF length = 3
       THEN [throws |-> FALSE,
             stmt |-> createImportStatement(m.caps[2], <<m.caps[1]>>, "default", fullMatch)]
       ELSE [throws |-> FALSE,
             stmt |-> createImportStatement(m.caps[1], <<>>, "default", fullMatch)]

isDuplicate(imports, newImport) ==
    \E i \in 1..Len(imports) :
        imports[i].source = newImport.source /\ imports[i].type = newImport.type

FromClause == <<Plus("space"), Lit("from"), Plus("space"), One("quote"), Cap("notquote"), One("quote")>>

ImportPatterns ==
    << <<Lit("import"), Plus("space"), Lit("*"), Plus("space"), Lit("as"), Plus("space"), Cap("word")>> \o FromClause,
       <<Lit("import"), Plus("space"), Lit("{"), Cap("notbrace"), Lit("}")>> \o FromClause,
       <<Lit("import"), Plus("space"), Cap("word")>> \o FromClause,
       <<Lit("import"), Plus("space"), One("quote"), Cap("notquote"), One("quote")>> >>

RECURSIVE AddMatches(_, _, _, _)
\* the inner while loop: push every non-duplicate parsed match; a throw aborts
AddMatches(s, ms, i, acc) ==
    IF acc.throws \/ i > Len(ms) THEN acc
    ELSE Once({IF parsed.throws THEN [throws |-> TRUE, imports |-> acc.imports]
               ELSE Once({AddMatches(s, ms, i + 1, next) :
                            next \in {IF isDuplicate(acc.imports, parsed.stmt) THEN acc
                                      ELSE [throws |-> FALSE,
                                            imports |-> Append(acc.imports, parsed.stmt)]}}) :
                 parsed \in {parseImportMatch(s, ms[i])}})

RECURSIVE ScanPatterns(_, _, _)
ScanPatterns(s, p, acc) ==
    IF acc.throws \/ p > Len(ImportPatterns) THEN acc
    ELSE Once({Once({ScanPatterns(s, p + 1, next) : next \in {AddMatches(s, ms, 1, acc)}}) :
                 ms \in {ExecAll(s, ImportPatterns[p], 1)}})

\* result: throws (a TypeError escaped) and the imports collected
parseImports(jsCode) ==
    Once({ScanPatterns(s, 1, [throws |-> FALSE, imports |-> <<>>]) : s \in {removeComments(jsCode)}})

(***************************************************************************)
(* importParser: normalizePackageName                                      *)
(***************************************************************************)
\* new URL(source): the authority must be non-empty and hold no whitespace
UrlRest(source) ==
    LET afterScheme == IF StartsWith(source, "https:") THEN SubSeq(source, 7, Len(source))
                       ELSE SubSeq(source, 6, Len(source))
        slashes == {i \in 1..Len(afterScheme) : CharAt(afterScheme, i) \notin {"/", "\\"}}
    IN IF slashes = {} THEN ""
       ELSE SubSeq(afterScheme, CHOOSE i \in slashes : \A j \in slashes : i <= j, Len(afterScheme))

UrlAuthorityEnd(rest) ==
    LET stops == {i \in 1..Len(rest) : CharAt(rest, i) \in {"/", "?", "#", "\\"}}
    IN IF stops = {} THEN Len(rest) + 1 ELSE CHOOSE i \in stops : \A j \in stops : i <= j

UrlThrows(source) ==
    LET rest == UrlRest(source)
        host == SubSeq(rest, 1, UrlAuthorityEnd(rest) - 1)
    IN host = "" \/ \E i \in 1..Len(host) : CharAt(host, i) \in SpaceChars

\* urlObj.pathname
UrlPathname(source) ==
    LET rest == UrlRest(source)
        from == UrlAuthorityEnd(rest)
        tailPart == SubSeq(rest, from, Len(rest))
        stops == {i \in 1..Len(tailPart) : CharAt(tailPart, i) \in {"?", "#"}}
        path == IF stops = {} THEN tailPart
                ELSE SubSeq(tailPart, 1, (CHOOSE i \in stops : \A j \in stops : i <= j) - 1)
    IN IF path = "" THEN "/" ELSE path

\* source.match(/host\/(@?[^@/]+)/): the capture of the leftmost match, "" for none
RECURSIVE CdnPackageMatch(_, _, _)
CdnPackageMatch(source, hostSlash, from) ==
    LET i == IndexOf(source, hostSlash, from)
        p == i + Len(hostSlash)
        scoped == MatchFrom(source, p, p, <<Lit("@"), Cap("pkgchar")>>, 1, <<>>)
        plain == MatchFrom(source, p, p, <<Cap("pkgchar")>>, 1, <<>>)
    IN IF i = 0 THEN ""
       ELSE IF scoped.ok THEN "@" \o scoped.caps[1]
       ELSE IF plain.ok THEN plain.caps[1]
       ELSE CdnPackageMatch(source, hostSlash, i + 1)

UrlPatterns == <<"cdn.skypack.dev/", "unpkg.com/", "cdn.jsdelivr.net/npm/", "esm.sh/">>

\* source.match(/\/examples\/jsm\/(.+)/): the capture, "" for no match
RECURSIVE AddonPathMatch(_, _)
AddonPathMatch(source, from) ==
    LET i == IndexOf(source, "/examples/jsm/", from)
        p == i + Len("/examples/jsm/")
        stop == RunEnd(source, p, "notnewline")
    IN IF i = 0 THEN ""
       ELSE IF stop > p THEN SubSeq(source, p, stop - 1)
       ELSE AddonPathMatch(source, i + 1)

\* result: throws (new URL rejected the source) and the normalized name
normalizePackageName(source) ==
    IF ~StartsWith(source, "http://") /\ ~StartsWith(source, "https://")
    THEN [throws |-> FALSE, name |-> source]
    ELSE LET addonPath == IF Includes(source, "three") /\ Includes(source, "/examples/jsm/")
                          THEN AddonPathMatch(source, 1) ELSE ""
             hits == {i \in 1..Len(UrlPatterns) : CdnPackageMatch(source, UrlPatterns[i], 1) # ""}
             pathParts == SelectNonEmpty(SplitOn(UrlPathname(source), "/"))
         IN IF addonPath # ""
            THEN [throws |-> FALSE,
                  name |-> "three/addons/" \o
                           (IF EndsWith(addonPath, ".js") THEN addonPath ELSE addonPath \o ".js")]
            ELSE IF hits # {}
            THEN [throws |-> FALSE,
                  name |-> CdnPackageMatch(source, UrlPatterns[CHOOSE i \in hits : \A j \in hits : i <= j], 1)]
            ELSE IF UrlThrows(source) THEN [throws |-> TRUE, name |-> ""]
            ELSE IF Len(pathParts) > 0
            THEN [throws |-> FALSE, name |-> SplitOn(pathParts[1], "@")[1]]
            ELSE [throws |-> FALSE, name |-> source]

(***************************************************************************)
(* cdnResolver                                                             *)
(***************************************************************************)
UseExisting == "<use-existing-importmap>"

ResolutionFailed == "<resolution-failed>"

BundledVersion == "0.157.0"

DEFAULT_CDN_CONFIG == [primary |-> "skypack", fallbacks |-> <<"unpkg", "esm.sh">>]

detectCDN(url) ==
    IF Includes(url, "cdn.skypack.dev") THEN "skypack"
    ELSE IF Includes(url, "unpkg.com") THEN "unpkg"
    ELSE IF Includes(url, "cdn.jsdelivr.net") THEN "jsdelivr"
    ELSE IF Includes(url, "esm.sh") THEN "esm.sh"
    ELSE "unknown"

\* buildCdnUrl without the 'latest' exception of versionStr
buildCdnUrl_AlwaysVersioned(packageName, version, cdn) ==
    LET versionStr == "@" \o version
    IN CASE cdn = "skypack" -> "https://cdn.skypack.dev/" \o packageName \o versionStr
         [] cdn = "unpkg" -> "https://unpkg.com/" \o packageName \o versionStr
         [] cdn = "jsdelivr" -> "https://cdn.jsdelivr.net/npm/" \o packageName \o versionStr
         [] cdn = "esm.sh" -> "https://esm.sh/" \o packageName \o versionStr
         [] OTHER -> "https://cdn.skypack.dev/" \o packageName \o versionStr

buildCdnUrl(packageName, version, cdn) ==
    LET versionStr == IF version = "latest" THEN "" ELSE "@" \o version
    IN CASE cdn = "skypack" -> "https://cdn.skypack.dev/" \o packageName \o versionStr
         [] cdn = "unpkg" -> "https://unpkg.com/" \o packageName \o versionStr
         [] cdn = "jsdelivr" -> "https://cdn.jsdelivr.net/npm/" \o packageName \o versionStr
         [] cdn = "esm.sh" -> "https://esm.sh/" \o packageName \o versionStr
         [] OTHER -> "https://cdn.skypack.dev/" \o packageName \o versionStr

resolveFromCDN(packageName, config, requestedVersion) ==
    LET version == IF requestedVersion # "" THEN requestedVersion ELSE "latest"
    IN [packageName |-> packageName,
        url |-> buildCdnUrl(packageName, version, config.primary),
        version |-> version,
        cdn |-> config.primary,
        originalSource |-> packageName]

normalizeUrlImport(importStmt) ==
    [packageName |-> normalizePackageName(importStmt.source).name,
     url |-> importStmt.source,
     version |-> IF importStmt.version # "" THEN importStmt.version ELSE "latest",
     cdn |-> detectCDN(importStmt.source),
     originalSource |-> importStmt.source]

\* the bundled test without its startsWith('three/') half
IsBundledName_ExactOnly(packageName) == packageName = "three"

IsBundledName(packageName) == packageName = "three" \/ StartsWith(packageName, "three/")

\* result: throws (normalizePackageName threw) and the ResolvedImport
resolveCDN(importStmt, config) ==
    LET n == normalizePackageName(importStmt.source)
    IN IF n.throws THEN [throws |-> TRUE]
       ELSE IF IsBundledName(n.name)
       THEN [throws |-> FALSE,
             res |-> [packageName |-> n.name,
                      url |-> UseExisting,
                      version |-> BundledVersion,
                      cdn |-> "jsdelivr",
                      originalSource |-> importStmt.source]]
       ELSE IF importStmt.isUrl
       THEN [throws |-> FALSE, res |-> normalizeUrlImport(importStmt)]
       ELSE [throws |-> FALSE, res |-> resolveFromCDN(importStmt.source, config, importStmt.version)]

FailedImport(importStmt) ==
    [packageName |-> importStmt.source,
     url |-> ResolutionFailed,
     version |-> "unknown",
     cdn |-> "none",
     originalSource |-> importStmt.source]

\* resolveImports without its try/catch: the first failure ends the batch
resolveImports_AbortsOnFailure(imports, config) ==
    LET failed == {i \in 1..Len(imports) : resolveCDN(imports[i], config).throws}
        n == IF failed = {} THEN Len(imports)
             ELSE (CHOOSE i \in failed : \A j \in failed : i <= j) - 1
    IN [i \in 1..n |-> resolveCDN(imports[i], config).res]

resolveImports(imports, config) ==
    [i \in 1..Len(imports) |->
        LET r == resolveCDN(imports[i], config)
        IN IF r.throws THEN FailedImport(imports[i]) ELSE r.res]

RECURSIVE Dedup(_)
\* insertion order of a Set / Map: the first occurrence of each element
Dedup(seq) ==
    IF seq = <<>> THEN <<>>
    ELSE LET init == Dedup(SubSeq(seq, 1, Len(seq) - 1))
             last == seq[Len(seq)]
         IN IF \E i \in 1..Len(init) : init[i] = last THEN init ELSE Append(init, last)

RECURSIVE Join(_, _)
Join(parts, sep) ==
    IF parts = <<>> THEN ""
    ELSE IF Len(parts) = 1 THEN parts[1]
    ELSE parts[1] \o sep \o Join(Tail(parts), sep)

\* the Set of versions the Map holds for pkg, in insertion order
PackageVersions(resolved, pkg) ==
    Dedup([i \in 1..Len(SelectSeq(resolved, LAMBDA r : r.packageName = pkg)) |->
              SelectSeq(resolved, LAMBDA r : r.packageName = pkg)[i].version])

\* the conflict test counting references instead of distinct versions
checkVersionConflicts_CountsReferences(resolved) ==
    LET pkgs == Dedup([i \in 1..Len(resolved) |-> resolved[i].packageName])
        conflicting == SelectSeq(pkgs, LAMBDA p :
                          Len(SelectSeq(resolved, LAMBDA r : r.packageName = p)) > 1)
    IN [i \in 1..Len(conflicting) |->
           "Version conflict for \"" \o conflicting[i] \o "\": "
              \o Join(PackageVersions(resolved, conflicting[i]), ", ")]

checkVersionConflicts(resolved) ==
    LET pkgs == Dedup([i \in 1..Len(resolved) |-> resolved[i].packageName])
        conflicting == SelectSeq(pkgs, LAMBDA p : Len(PackageVersions(resolved, p)) > 1)
        conflicts == [i \in 1..Len(conflicting) |->
                         "Version conflict for \"" \o conflicting[i] \o "\": "
                            \o Join(PackageVersions(resolved, conflicting[i]), ", ")]
        mismatched == SelectSeq(resolved, LAMBDA r :
                         r.packageName = "three" /\ r.version # BundledVersion /\ r.version # "latest")
        mismatches == [i \in 1..Len(mismatched) |->
                         "Three.js version mismatch: requested " \o mismatched[i].version
                            \o ", IDE uses 0.157.0"]
    IN conflicts \o mismatches

(***************************************************************************)
(* importmapGenerator.  An importmap's imports object is a function from   *)
(* its keys to URLs.                                                       *)
(***************************************************************************)
EmptyImports == [k \in {} |-> ""]

BASE_IMPORTMAP ==
    [imports |->
        ("three" :> "https://cdn.jsdelivr.net/npm/three@0.157.0/build/three.module.js") @@
        ("three/addons/" :> "https://cdn.jsdelivr.net/npm/three@0.157.0/examples/jsm/") @@
        ("gsap" :> "https://cdn.skypack.dev/gsap") @@
        ("lil-gui" :> "https://cdn.skypack.dev/lil-gui")]

\* imports[key] = url
SetKey(imports, key, url) ==
    [k \in DOMAIN imports \cup {key} |-> IF k = key THEN url ELSE imports[k]]

\* the duplicate test without baseKeys.has(key)
IsBaseDuplicate_PrefixOnly(key) ==
    \E baseKey \in DOMAIN BASE_IMPORTMAP.imports : EndsWith(baseKey, "/") /\ StartsWith(key, baseKey)

\* the duplicate test without the prefix case
IsBaseDuplicate_ExactOnly(key) == key \in DOMAIN BASE_IMPORTMAP.imports

IsBaseDuplicate(key) ==
    LET baseKeys == DOMAIN BASE_IMPORTMAP.imports
    IN key \in baseKeys \/ \E baseKey \in baseKeys : EndsWith(baseKey, "/") /\ StartsWith(key, baseKey)

RECURSIVE AddResolved(_, _, _)
\* the for loop of generateImportmap over resolved[i..]
AddResolved(imports, resolved, i) ==
    IF i > Len(resolved) THEN imports
    ELSE LET r == resolved[i]
         IN IF r.url = UseExisting \/ r.url = ResolutionFailed \/ IsBaseDuplicate(r.packageName)
            THEN AddResolved(imports, resolved, i + 1)
            ELSE AddResolved(SetKey(imports, r.packageName, r.url), resolved, i + 1)

generateImportmap(resolved, includeBase) ==
    [imports |-> AddResolved(IF includeBase THEN BASE_IMPORTMAP.imports ELSE EmptyImports,
                             resolved, 1)]

getUserImports(importmap) ==
    [k \in DOMAIN importmap.imports \ DOMAIN BASE_IMPORTMAP.imports |-> importmap.imports[k]]

\* the entry check without its test for an empty value
EntryErrors_SkipsEmptyValue(key, value) ==
    (IF Trim(key) = "" THEN {"Invalid import key: \"" \o key \o "\""} ELSE {})
    \cup (IF value # "" /\ ~StartsWith(value, "http://") /\ ~StartsWith(value, "https://")
          THEN {"Import URL for \"" \o key \o "\" should start with http:// or https://: \""
                   \o value \o "\""}
          ELSE {})

\* the errors validateImportmap pushes for one entry of the imports object
EntryErrors(key, value) ==
    (IF Trim(key) = "" THEN {"Invalid import key: \"" \o key \o "\""} ELSE {})
    \cup (IF Trim(value) = ""
          THEN {"Invalid import value for key \"" \o key \o "\": \"" \o value \o "\""}
          ELSE {})
    \cup (IF value # "" /\ ~StartsWith(value, "http://") /\ ~StartsWith(value, "https://")
          THEN {"Import URL for \"" \o key \o "\" should start with http:// or https://: \""
                   \o value \o "\""}
          ELSE {})

\* the errors of an importmap whose imports object maps strings to strings; the
\* errors of different entries differ, so the set has the size of the list
validateImportmap(importmap) ==
    UNION {EntryErrors(k, importmap.imports[k]) : k \in DOMAIN importmap.imports}

(***************************************************************************)
(* App: state of the component, the messages it has posted, the runCode    *)
(* invocations suspended in `await resolveImports`, and the runCode        *)
(* closure that handleEditorMount registered for Cmd/Ctrl+R.               *)
(***************************************************************************)
VARIABLES
    code,                 \* useState(defaultCode)
    isIframeReady,        \* useState(false)
    error,                \* useState(null); "" is null
    consoleMessages,      \* useState([])
    pendingCameraNodeId,  \* window.__pendingCameraNodeId; "" is undefined
    openerOpen,           \* window.opener && !window.opener.closed
    toIframe,             \* messages posted to iframeRef.current.contentWindow
    toOpener,             \* messages posted to window.opener
    runs,                 \* runCode invocations suspended at the await
    cmdRunCode,           \* the runCode closure passed to editor.addCommand
    uncaught,             \* a listener let an exception escape
    lastOrigin,           \* origin of the message event handled last
    nEvents,              \* message events handled
    handshakes,           \* same-origin 'ready' messages handled
    cameraRequests,       \* nodeIds of the getCamera requests received, in order
    readyCode,            \* the source text when the handshake was handled
    sinceReady,           \* the source texts current at or after the handshake
    nEdits,               \* code changes made through the editor
    nCmd,                 \* user commands issued (Cmd/Ctrl+R, send button)
    nStarted,             \* runCode invocations that passed the ready guard
    pipeline              \* what the pure pipeline of runCode returns for each text

VARIABLES
    pstmts,               \* parsed imports handed to resolveImports
    presolved,            \* resolved references handed to the generator
    pmap,                 \* result of generateImportmap
    pbase,                \* the includeBase argument of that call
    pwarnings,            \* result of checkVersionConflicts
    perrors,              \* result of validateImportmap
    ptext,                \* the text handed to parseImports, "" for none
    pphase                \* which of the functions have been applied

appVars == <<code, isIframeReady, error, consoleMessages, pendingCameraNodeId, openerOpen,
             toIframe, toOpener, runs, cmdRunCode, uncaught, lastOrigin, nEvents,
             handshakes, cameraRequests, readyCode, sinceReady, nEdits, nCmd, nStarted, pipeline>>

pureVars == <<pstmts, presolved, pmap, pbase, pwarnings, perrors, ptext, pphase>>

vars == <<appVars, pureVars>>

\* bounds of the exploration
MaxEdits == 2
MaxCmd == 1
MaxEvents == 2
MaxBridgeEvents == 3
MaxRefs == 3

\* the import header of defaultCode
defaultCode ==
    "import * as THREE from 'three';\nimport { OrbitControls } from 'three/addons/controls/OrbitControls.js';"

TxtPlain == "const x = 1; /* import 'nothing' */"
TxtLodash == "import _ from 'lodash';\nimport gsap from 'https://unpkg.com/gsap@3.1.0';"
TxtThrows == "import 'a{b';"
TxtFailed == "import 'https://';\nimport a from 'https://esm.sh/foo@1.0.0';\nimport { b } from 'https://unpkg.com/foo@2.0.0';"

TxtForeign == "import s from 'https://evil.example/@s/p';"

\* texts the editor, the URL hash or local storage can hold
Texts == {defaultCode, TxtPlain, TxtLodash, TxtThrows, TxtFailed, TxtForeign}

HostOrigin == "http://localhost:5174"
ForeignOrigin == "https://evil.example"
Origins == {HostOrigin, ForeignOrigin}

FLOWBOARD_ORIGINS == <<"http://localhost:5173", "https://jweese001.github.io">>

IframePost(type) ==
    [type |-> type, code |-> "", hasImportmap |-> FALSE, importmap |-> EmptyImports,
     trigger |-> "", run |-> 0, resolved |-> FALSE]

ExecuteCode(text, hasImportmap, importmap, trigger, run, resolved) ==
    [type |-> "executeCode", code |-> text, hasImportmap |-> hasImportmap,
     importmap |-> importmap, trigger |-> trigger, run |-> run, resolved |-> resolved]

OpenerPost(type, origin, nodeId) == [type |-> type, targetOrigin |-> origin, nodeId |-> nodeId]

\* for (const origin of FLOWBOARD_ORIGINS) window.opener.postMessage(message, origin)
ToAllOrigins(type, nodeId) ==
    [i \in 1..Len(FLOWBOARD_ORIGINS) |-> OpenerPost(type, FLOWBOARD_ORIGINS[i], nodeId)]

ExecPosts(posts) == SelectSeq(posts, LAMBDA m : m.type = "executeCode")

(***************************************************************************)
(* runCode up to its await.  closure is the [code, ready] pair the         *)
(* useCallback captured; st holds toIframe, runs and nStarted.             *)
(***************************************************************************)
\* parseImports and the resolve/build pipeline are pure: their results for the
\* texts of the exploration are tabulated once, in PipelineOfTexts
PipelineAfterResolve(parsed, resolved) ==
    [parsed |-> parsed,
     resolved |-> resolved,
     importmap |-> generateImportmap(resolved, FALSE),
     externalPackages |-> getUserImports(generateImportmap(resolved, FALSE)),
     warnings |-> checkVersionConflicts(resolved)]

PipelineAfterParse(parsed) ==
    Once({PipelineAfterResolve(parsed, resolved) :
            resolved \in {resolveImports(parsed.imports, DEFAULT_CDN_CONFIG)}})

PipelineOfText(text) == Once({PipelineAfterParse(parsed) : parsed \in {parseImports(text)}})

PipelineOfTexts == [text \in Texts |-> PipelineOfText(text)]

\* runCode without the isIframeReady test of its guard
runCode_NoReadyGuard(closure, trigger, st) ==
    LET p == pipeline[closure.code].parsed
        id == st.nStarted + 1
    IN IF p.throws \/ Len(p.imports) = 0
       THEN [st EXCEPT !.nStarted = id,
                       !.toIframe = Append(@, ExecuteCode(closure.code, FALSE, EmptyImports, trigger, id, FALSE))]
       ELSE [st EXCEPT !.nStarted = id,
                       !.runs = Append(@, [code |-> closure.code, trigger |-> trigger, run |-> id])]

\* runCode taking the resolve branch for an empty import list too
runCode_AlwaysResolves(closure, trigger, st) ==
    IF ~closure.ready THEN st
    ELSE LET p == pipeline[closure.code].parsed
             id == st.nStarted + 1
         IN IF p.throws
            THEN [st EXCEPT !.nStarted = id,
                            !.toIframe = Append(@, ExecuteCode(closure.code, FALSE, EmptyImports, trigger, id, FALSE))]
            ELSE [st EXCEPT !.nStarted = id,
                            !.runs = Append(@, [code |-> closure.code, trigger |-> trigger, run |-> id])]

runCode(closure, trigger, st) ==
    IF ~closure.ready THEN st
    ELSE LET p == pipeline[closure.code].parsed
             id == st.nStarted + 1
         IN IF p.throws
            THEN [st EXCEPT !.nStarted = id,
                            !.toIframe = Append(@, ExecuteCode(closure.code, FALSE, EmptyImports, trigger, id, FALSE))]
            ELSE IF Len(p.imports) > 0
            THEN [st EXCEPT !.nStarted = id,
                            !.runs = Append(@, [code |-> closure.code, trigger |-> trigger, run |-> id])]
            ELSE [st EXCEPT !.nStarted = id,
                            !.toIframe = Append(@, ExecuteCode(closure.code, FALSE, EmptyImports, trigger, id, FALSE))]

RunState == [toIframe |-> toIframe, runs |-> runs, nStarted |-> nStarted]

SetRunState(st) ==
    /\ toIframe' = st.toIframe
    /\ runs' = st.runs
    /\ nStarted' = st.nStarted

\* runCode posting its message twice after the await
FinishRun_PostsTwice(i) ==
    /\ i \in 1..Len(runs)
    /\ LET r == runs[i]
           post == ExecuteCode(r.code, TRUE, pipeline[r.code].importmap.imports, r.trigger, r.run, TRUE)
       IN toIframe' = toIframe \o <<post, post>>
    /\ runs' = [j \in 1..(Len(runs) - 1) |-> IF j < i THEN runs[j] ELSE runs[j + 1]]
    /\ UNCHANGED <<code, isIframeReady, error, consoleMessages, pendingCameraNodeId, openerOpen,
                   toOpener, cmdRunCode, uncaught, lastOrigin, nEvents, handshakes, cameraRequests, readyCode,
                   sinceReady, nEdits, nCmd, nStarted>>
    /\ UNCHANGED <<pipeline, pureVars>>

\* runCode after its await: resolve, build the importmap, post.  The await is a
\* suspension point: other handlers may run before the invocation resumes, and
\* suspended invocations resume in any order (the resolver is async).
FinishRun(i) ==
    /\ i \in 1..Len(runs)
    /\ LET r == runs[i]
           resolved == pipeline[r.code].resolved
           importmap == pipeline[r.code].importmap
           warnings == pipeline[r.code].warnings
       IN toIframe' = Append(toIframe, ExecuteCode(r.code, TRUE, importmap.imports, r.trigger, r.run, TRUE))
    /\ runs' = [j \in 1..(Len(runs) - 1) |-> IF j < i THEN runs[j] ELSE runs[j + 1]]
    /\ UNCHANGED <<code, isIframeReady, error, consoleMessages, pendingCameraNodeId, openerOpen,
                   toOpener, cmdRunCode, uncaught, lastOrigin, nEvents, handshakes, cameraRequests, readyCode,
                   sinceReady, nEdits, nCmd, nStarted>>
    /\ UNCHANGED <<pipeline, pureVars>>

\* setCode(text) followed by the re-render: useEffect(runCode) runs the new closure
SetCode(text, trigger) ==
    /\ code' = text
    /\ sinceReady' = IF isIframeReady THEN sinceReady \cup {text} ELSE sinceReady
    /\ IF text # code
       THEN SetRunState(runCode([code |-> text, ready |-> isIframeReady], trigger, RunState))
       ELSE UNCHANGED <<toIframe, runs, nStarted>>

\* handleCodeChange, the editor's onChange
Edit(text) ==
    /\ cmdRunCode.mounted
    /\ nEdits < MaxEdits
    /\ text # code
    /\ nEdits' = nEdits + 1
    /\ error' = ""
    /\ SetCode(text, "edit")
    /\ UNCHANGED <<isIframeReady, consoleMessages, pendingCameraNodeId, openerOpen, toOpener,
                   cmdRunCode, uncaught, lastOrigin, nEvents, handshakes, cameraRequests, readyCode, nCmd>>
    /\ UNCHANGED <<pipeline, pureVars>>

\* the Cmd/Ctrl+Shift+R command, confirmed
ResetToDefault ==
    /\ cmdRunCode.mounted
    /\ nEdits < MaxEdits
    /\ nEdits' = nEdits + 1
    /\ SetCode(defaultCode, "edit")
    /\ UNCHANGED <<isIframeReady, error, consoleMessages, pendingCameraNodeId, openerOpen, toOpener,
                   cmdRunCode, uncaught, lastOrigin, nEvents, handshakes, cameraRequests, readyCode, nCmd>>
    /\ UNCHANGED <<pipeline, pureVars>>

\* handleEditorMount: editor.addCommand(CtrlCmd | KeyR, runCode)
EditorMount ==
    /\ ~cmdRunCode.mounted
    /\ cmdRunCode' = [mounted |-> TRUE, code |-> code, ready |-> isIframeReady]
    /\ UNCHANGED <<code, isIframeReady, error, consoleMessages, pendingCameraNodeId, openerOpen,
                   toIframe, toOpener, runs, uncaught, lastOrigin, nEvents, handshakes, cameraRequests, readyCode,
                   sinceReady, nEdits, nCmd, nStarted>>
    /\ UNCHANGED <<pipeline, pureVars>>

\* Cmd/Ctrl+R: the closure registered at mount is invoked
CmdR ==
    /\ cmdRunCode.mounted
    /\ nCmd < MaxCmd
    /\ nCmd' = nCmd + 1
    /\ SetRunState(runCode([code |-> cmdRunCode.code, ready |-> cmdRunCode.ready], "cmd", RunState))
    /\ UNCHANGED <<code, isIframeReady, error, consoleMessages, pendingCameraNodeId, openerOpen,
                   toOpener, cmdRunCode, uncaught, lastOrigin, nEvents, handshakes, cameraRequests, readyCode,
                   sinceReady, nEdits>>
    /\ UNCHANGED <<pipeline, pureVars>>

\* handleSendToFlowBoard, the send button
SendToFlowBoard ==
    /\ isIframeReady
    /\ nCmd < MaxCmd
    /\ nCmd' = nCmd + 1
    /\ toIframe' = Append(toIframe, IframePost("captureCanvas"))
    /\ UNCHANGED <<code, isIframeReady, error, consoleMessages, pendingCameraNodeId, openerOpen,
                   toOpener, runs, cmdRunCode, uncaught, lastOrigin, nEvents, handshakes, cameraRequests, readyCode,
                   sinceReady, nEdits, nStarted>>
    /\ UNCHANGED <<pipeline, pureVars>>

\* the opener window is closed by the user
OpenerClose ==
    /\ openerOpen
    /\ openerOpen' = FALSE
    /\ UNCHANGED <<code, isIframeReady, error, consoleMessages, pendingCameraNodeId,
                   toIframe, toOpener, runs, cmdRunCode, uncaught, lastOrigin, nEvents,
                   handshakes, cameraRequests, readyCode, sinceReady, nEdits, nCmd, nStarted>>
    /\ UNCHANGED <<pipeline, pureVars>>

(***************************************************************************)
(* Message events.  data is event.data: isNull for null/undefined, else    *)
(* its type tag and payload (present is false for a missing payload).      *)
(***************************************************************************)
NoPayload ==
    [present |-> FALSE, action |-> "", nodeId |-> "", resolution |-> "", hasCameraState |-> FALSE,
     imageData |-> "", hasPosition |-> FALSE, error |-> "", message |-> "",
     level |-> "", argsIsArray |-> FALSE, args |-> <<>>]

Payload == [NoPayload EXCEPT !.present = TRUE]

Data(type, payload) == [isNull |-> FALSE, type |-> type, payload |-> payload]

NullData == [isNull |-> TRUE, type |-> "", payload |-> NoPayload]

Request(action) == Data("request", [Payload EXCEPT !.action = action])

\* the messages the run pipeline reacts to
RunMessages ==
    {Data("ready", NoPayload),
     Data("reset", NoPayload),
     Data("error", [Payload EXCEPT !.message = "ReferenceError: y is not defined"])}

\* the capture, camera, shader and console traffic, and malformed messages
BridgeMessages ==
    {Data("ready", NoPayload),
     NullData,
     Data("unknown", NoPayload),
     Data("ping", NoPayload),
     Request("capture"),
     [Request("getCamera") EXCEPT !.payload.nodeId = "n1"],
     [Request("getCamera") EXCEPT !.payload.nodeId = "n2"],
     [Request("loadCamera") EXCEPT !.payload.hasCameraState = TRUE],
     Request("loadCamera"),
     [Request("applyShader") EXCEPT !.payload.nodeId = "n1"],
     Data("canvasCaptured", [Payload EXCEPT !.imageData = "data:image/png;base64,AAAA"]),
     Data("canvasCaptured", [Payload EXCEPT !.error = "No canvas found"]),
     Data("cameraState", [Payload EXCEPT !.hasPosition = TRUE]),
     Data("cameraState", [Payload EXCEPT !.error = "No camera found"]),
     Data("shaderResult", [Payload EXCEPT !.nodeId = "n1"]),
     Data("console", [Payload EXCEPT !.level = "log", !.argsIsArray = TRUE, !.args = <<"hello", "world">>]),
     Data("console", [Payload EXCEPT !.level = "warn", !.argsIsArray = TRUE, !.args = <<"THREE.WebGLRenderer: Context Lost.">>]),
     Data("console", [Payload EXCEPT !.level = "log"]),
     Data("console", NoPayload)}

LowerString == "abcdefghijklmnopqrstuvwxyz"
UpperString == "ABCDEFGHIJKLMNOPQRSTUVWXYZ"

LowerChar(c) ==
    LET hits == {i \in 1..Len(UpperString) : CharAt(UpperString, i) = c}
    IN IF hits = {} THEN c ELSE CharAt(LowerString, CHOOSE i \in hits : TRUE)

RECURSIVE ToLower(_)
ToLower(s) == IF s = "" THEN "" ELSE LowerChar(CharAt(s, 1)) \o ToLower(Tail(s))

\* pattern.test(message) for some pattern of CONSOLE_IGNORE_PATTERNS; what
\* /three\.webglrenderer.*context/i matches, /webgl.*context/i matches too
ShouldIgnore(message) ==
    LET m == ToLower(message)
        digits == RunEnd(m, 1, "digit")
    IN \/ Includes(m, "context lost")
       \/ \E i \in 1..Len(m) :
             /\ StartsWithAt(m, "webgl", i)
             /\ \E j \in (i + 5)..Len(m) :
                   /\ StartsWithAt(m, "context", j)
                   /\ \A k \in i..j : CharAt(m, k) # "\n"
       \/ /\ digits > 1
          /\ SubSeq(m, digits, Len(m)) = "% loaded"

\* the listener registered by the FlowBoard effect: it reads no event.origin
FlowBoardIframePosts(data) ==
    IF data.isNull \/ data.type # "request" THEN <<>>
    ELSE CASE data.payload.action = "capture" -> <<IframePost("captureCanvas")>>
           [] data.payload.action = "getCamera" -> <<IframePost("getCameraState")>>
           [] data.payload.action = "loadCamera" /\ data.payload.hasCameraState -> <<IframePost("setCameraState")>>
           [] data.payload.action = "applyShader" -> <<IframePost("applyShader")>>
           [] OTHER -> <<>>

\* the ping branch answering without looking at window.opener
FlowBoardOpenerPosts_IgnoresOpener(data) ==
    IF ~data.isNull /\ data.type = "ping" THEN ToAllOrigins("pong", "") ELSE <<>>

FlowBoardOpenerPosts(data) ==
    IF ~data.isNull /\ data.type = "ping" /\ openerOpen THEN ToAllOrigins("pong", "") ELSE <<>>

GetCameraRequest(data) ==
    IF ~data.isNull /\ data.type = "request" /\ data.payload.action = "getCamera"
    THEN <<data.payload.nodeId>> ELSE <<>>

FlowBoardPending_KeepsFirst(data) ==
    IF ~data.isNull /\ data.type = "request" /\ data.payload.action = "getCamera"
          /\ pendingCameraNodeId = ""
    THEN data.payload.nodeId ELSE pendingCameraNodeId

FlowBoardPending(data) ==
    IF ~data.isNull /\ data.type = "request" /\ data.payload.action = "getCamera"
    THEN data.payload.nodeId ELSE pendingCameraNodeId

\* the cameraState branch forwarding without a pending nodeId
IframeOpenerPosts_ForwardsWithoutPending(data) ==
    CASE data.type = "canvasCaptured" /\ openerOpen /\ data.payload.imageData # "" ->
            ToAllOrigins("capture", "")
      [] data.type = "cameraState" /\ openerOpen /\ data.payload.hasPosition ->
            ToAllOrigins("cameraState", FlowBoardPending(data))
      [] data.type = "shaderResult" /\ openerOpen -> ToAllOrigins("shaderResult", data.payload.nodeId)
      [] OTHER -> <<>>

\* the listener registered by the iframe effect, past its origin check
IframeOpenerPosts(data) ==
    CASE data.type = "canvasCaptured" /\ openerOpen /\ data.payload.imageData # "" ->
            ToAllOrigins("capture", "")
      [] data.type = "cameraState" /\ openerOpen /\ data.payload.hasPosition
            /\ FlowBoardPending(data) # "" ->
            ToAllOrigins("cameraState", FlowBoardPending(data))
      [] data.type = "shaderResult" /\ openerOpen -> ToAllOrigins("shaderResult", data.payload.nodeId)
      [] OTHER -> <<>>

\* const { level, args } = payload; args.map(...): a TypeError when either is missing
ConsoleThrows(data) ==
    data.type = "console" /\ (~data.payload.present \/ ~data.payload.argsIsArray)

ConsoleAppend(data) ==
    LET message == Join(data.payload.args, " ")
    IN IF data.type = "console" /\ ~ConsoleThrows(data) /\ ~ShouldIgnore(message)
       THEN <<[type |-> data.payload.level, message |-> message]>>
       ELSE <<>>

\* the 'ready' branch scheduling a run on every handshake message
Receive_RunsOnEveryReady(origin, data) ==
    /\ nEvents' = nEvents + 1
    /\ lastOrigin' = origin
    /\ LET trusted == origin = HostOrigin /\ ~data.isNull
           becomesReady == trusted /\ data.type = "ready"
           afterFlowBoard == [RunState EXCEPT !.toIframe = @ \o FlowBoardIframePosts(data)]
           closure == [code |-> code, ready |-> isIframeReady]
       IN /\ uncaught' = (uncaught \/ (origin = HostOrigin /\ data.isNull) \/ (trusted /\ ConsoleThrows(data)))
          /\ error' = IF trusted /\ data.type = "error"
                      THEN (IF data.payload.present THEN data.payload.message ELSE "")
                      ELSE error
          /\ isIframeReady' = (isIframeReady \/ (trusted /\ data.type = "ready"))
          /\ handshakes' = IF trusted /\ data.type = "ready" THEN handshakes + 1 ELSE handshakes
          /\ cameraRequests' = cameraRequests \o GetCameraRequest(data)
          /\ readyCode' = IF becomesReady THEN code ELSE readyCode
          /\ sinceReady' = IF becomesReady THEN {code} ELSE sinceReady
          /\ consoleMessages' = IF trusted THEN consoleMessages \o ConsoleAppend(data) ELSE consoleMessages
          /\ toOpener' = toOpener \o FlowBoardOpenerPosts(data)
                                  \o (IF trusted THEN IframeOpenerPosts(data) ELSE <<>>)
          /\ pendingCameraNodeId' =
                IF trusted /\ IframeOpenerPosts(data) # <<>> /\ data.type = "cameraState"
                THEN "" ELSE FlowBoardPending(data)
          /\ SetRunState(IF becomesReady
                         THEN runCode([code |-> code, ready |-> TRUE], "ready", afterFlowBoard)
                         ELSE IF trusted /\ data.type = "reset"
                         THEN runCode(closure, "reset", afterFlowBoard)
                         ELSE afterFlowBoard)
    /\ UNCHANGED <<code, openerOpen, cmdRunCode, nEdits, nCmd>>
    /\ UNCHANGED <<pipeline, pureVars>>

\* the 'reset' branch calling the runCode of the render that saw the handshake
Receive_ResetRunsStaleClosure(origin, data) ==
    /\ nEvents' = nEvents + 1
    /\ lastOrigin' = origin
    /\ LET trusted == origin = HostOrigin /\ ~data.isNull
           becomesReady == trusted /\ data.type = "ready" /\ ~isIframeReady
           afterFlowBoard == [RunState EXCEPT !.toIframe = @ \o FlowBoardIframePosts(data)]
           closure == [code |-> readyCode, ready |-> isIframeReady]
       IN /\ uncaught' = (uncaught \/ (origin = HostOrigin /\ data.isNull) \/ (trusted /\ ConsoleThrows(data)))
          /\ error' = IF trusted /\ data.type = "error"
                      THEN (IF data.payload.present THEN data.payload.message ELSE "")
                      ELSE error
          /\ isIframeReady' = (isIframeReady \/ (trusted /\ data.type = "ready"))
          /\ handshakes' = IF trusted /\ data.type = "ready" THEN handshakes + 1 ELSE handshakes
          /\ cameraRequests' = cameraRequests \o GetCameraRequest(data)
          /\ readyCode' = IF becomesReady THEN code ELSE readyCode
          /\ sinceReady' = IF becomesReady THEN {code} ELSE sinceReady
          /\ consoleMessages' = IF trusted THEN consoleMessages \o ConsoleAppend(data) ELSE consoleMessages
          /\ toOpener' = toOpener \o FlowBoardOpenerPosts(data)
                                  \o (IF trusted THEN IframeOpenerPosts(data) ELSE <<>>)
          /\ pendingCameraNodeId' =
                IF trusted /\ IframeOpenerPosts(data) # <<>> /\ data.type = "cameraState"
                THEN "" ELSE FlowBoardPending(data)
          /\ SetRunState(IF becomesReady
                         THEN runCode([code |-> code, ready |-> TRUE], "ready", afterFlowBoard)
                         ELSE IF trusted /\ data.type = "reset"
                         THEN runCode(closure, "reset", afterFlowBoard)
                         ELSE afterFlowBoard)
    /\ UNCHANGED <<code, openerOpen, cmdRunCode, nEdits, nCmd>>
    /\ UNCHANGED <<pipeline, pureVars>>

\* one message event: both listeners of the window are called
Receive(origin, data) ==
    /\ nEvents' = nEvents + 1
    /\ lastOrigin' = origin
    /\ LET trusted == origin = HostOrigin /\ ~data.isNull
           becomesReady == trusted /\ data.type = "ready" /\ ~isIframeReady
           afterFlowBoard == [RunState EXCEPT !.toIframe = @ \o FlowBoardIframePosts(data)]
           closure == [code |-> code, ready |-> isIframeReady]
       IN /\ uncaught' = (uncaught \/ (origin = HostOrigin /\ data.isNull) \/ (trusted /\ ConsoleThrows(data)))
          /\ error' = IF trusted /\ data.type = "error"
                      THEN (IF data.payload.present THEN data.payload.message ELSE "")
                      ELSE error
          /\ isIframeReady' = (isIframeReady \/ (trusted /\ data.type = "ready"))
          /\ handshakes' = IF trusted /\ data.type = "ready" THEN handshakes + 1 ELSE handshakes
          /\ cameraRequests' = cameraRequests \o GetCameraRequest(data)
          /\ readyCode' = IF becomesReady THEN code ELSE readyCode
          /\ sinceReady' = IF becomesReady THEN {code} ELSE sinceReady
          /\ consoleMessages' = IF trusted THEN consoleMessages \o ConsoleAppend(data) ELSE consoleMessages
          /\ toOpener' = toOpener \o FlowBoardOpenerPosts(data)
                                  \o (IF trusted THEN IframeOpenerPosts(data) ELSE <<>>)
          /\ pendingCameraNodeId' =
                IF trusted /\ IframeOpenerPosts(data) # <<>> /\ data.type = "cameraState"
                THEN "" ELSE FlowBoardPending(data)
          /\ SetRunState(IF becomesReady
                         THEN runCode([code |-> code, ready |-> TRUE], "ready", afterFlowBoard)
                         ELSE IF trusted /\ data.type = "reset"
                         THEN runCode(closure, "reset", afterFlowBoard)
                         ELSE afterFlowBoard)
    /\ UNCHANGED <<code, openerOpen, cmdRunCode, nEdits, nCmd>>
    /\ UNCHANGED <<pipeline, pureVars>>

ReceiveRun ==
    /\ nEvents < MaxEvents
    /\ \E origin \in Origins, data \in RunMessages : Receive(origin, data)

ReceiveBridge ==
    /\ nEvents < MaxBridgeEvents
    /\ \E origin \in Origins, data \in BridgeMessages : Receive(origin, data)

Finish == \E i \in 1..Len(runs) : FinishRun(i)

(***************************************************************************)
(* The pure functions applied to bounded inputs: resolveImports on a list  *)
(* of parsed imports, or generateImportmap and checkVersionConflicts on a  *)
(* given list of resolved references.                                      *)
(***************************************************************************)
SampleSources ==
    {"three",
     "three/addons/controls/OrbitControls.js",
     "three/foo",
     "lodash",
     "lodash@4.0.0",
     "https://cdn.skypack.dev/three@0.136.0",
     "https://cdn.jsdelivr.net/npm/three@0.136.0/examples/jsm/controls/OrbitControls",
     "https://unpkg.com/gsap@3.1.0",
     "https://"}

SampleStatements == {createImportStatement(src, <<>>, "default", "") : src \in SampleSources}

Ref(packageName, url, version) ==
    [packageName |-> packageName, url |-> url, version |-> version,
     cdn |-> detectCDN(url), originalSource |-> url]

SampleResolved ==
    {Ref("gsap", "https://unpkg.com/gsap@3.0.0", "3.0.0"),
     Ref("gsap", "https://unpkg.com/gsap@3.1.0", "3.1.0"),
     Ref("three", "https://cdn.skypack.dev/three@0.136.0", "0.136.0"),
     Ref("three/addons/x.js", "https://evil.example/x.js", "latest"),
     Ref("lodash", "https://cdn.skypack.dev/lodash", "latest"),
     Ref("lodash", "https://esm.sh/lodash@4.0.0", "4.0.0"),
     Ref("lodash", ResolutionFailed, "unknown"),
     Ref("three", UseExisting, BundledVersion)}

BoundedSeqs(S, n) == UNION {[1..k -> S] : k \in 0..n}

SampleKeys == {"lodash", "gsap", "", " "}

SampleValues ==
    {"https://esm.sh/lodash@4.0.0", "http://unpkg.com/gsap", "", " ", "ftp://esm.sh/x", "./local.js"}

\* importmaps handed to validateImportmap: up to two entries
SampleImportmaps ==
    {[imports |-> f] : f \in UNION {[D -> SampleValues] : D \in {K \in SUBSET SampleKeys : Cardinality(K) <= 2}}}

AppInit ==
    /\ code \in Texts
    /\ isIframeReady = FALSE
    /\ error = ""
    /\ consoleMessages = <<>>
    /\ pendingCameraNodeId = ""
    /\ openerOpen \in BOOLEAN
    /\ toIframe = <<>>
    /\ toOpener = IF openerOpen THEN ToAllOrigins("status", "") ELSE <<>>
    /\ runs = <<>>
    /\ cmdRunCode = [mounted |-> FALSE, code |-> "", ready |-> FALSE]
    /\ uncaught = FALSE
    /\ lastOrigin = ""
    /\ nEvents = 0
    /\ handshakes = 0
    /\ cameraRequests = <<>>
    /\ readyCode = ""
    /\ sinceReady = {}
    /\ nEdits = 0
    /\ nCmd = 0
    /\ nStarted = 0

PureIdle ==
    /\ pstmts = <<>>
    /\ presolved = <<>>
    /\ pmap = [imports |-> EmptyImports]
    /\ pbase = FALSE
    /\ pwarnings = <<>>
    /\ perrors = {}
    /\ ptext = ""
    /\ pphase = "idle"

\* the state after the first render and its effects
Init ==
    /\ pipeline = PipelineOfTexts
    /\ AppInit
    /\ PureIdle

Next ==
    \/ \E text \in Texts : Edit(text)
    \/ ResetToDefault
    \/ EditorMount
    \/ CmdR
    \/ ReceiveRun
    \/ Finish

Spec == Init /\ [][Next]_vars

\* a suspended runCode resumes once its promise settles
FairSpec == Spec /\ WF_vars(Finish)

NextBridge ==
    \/ ReceiveBridge
    \/ ReceiveRun
    \/ Finish
    \/ SendToFlowBoard
    \/ OpenerClose

SpecBridge == Init /\ [][NextBridge]_vars

TxtTwoShapes == "import X from 'a';\nimport 'a';"
TxtSameShape == "import X from 'a';\nimport Y from 'a';"
TxtAllShapes == "import * as N from 'a';\nimport { p, q as r } from 'a';\nimport X from 'a';"

SampleTexts == {TxtTwoShapes, TxtSameShape, TxtAllShapes, TxtLodash, TxtThrows, TxtPlain}

\* the functions are applied directly: no handler runs, no table is kept
InitPure ==
    /\ pipeline = <<>>
    /\ AppInit
    /\ code = defaultCode
    /\ openerOpen = FALSE
    /\ pbase = FALSE
    /\ pwarnings = <<>>
    /\ perrors = {}
    /\ \/ /\ ptext \in SampleTexts
          /\ pstmts = <<>>
          /\ presolved = <<>>
          /\ pmap = [imports |-> EmptyImports]
          /\ pphase = "text"
       \/ /\ ptext = ""
          /\ pstmts \in BoundedSeqs(SampleStatements, MaxRefs)
          /\ presolved = <<>>
          /\ pmap = [imports |-> EmptyImports]
          /\ pphase = "input"
       \/ /\ ptext = ""
          /\ pstmts = <<>>
          /\ presolved \in BoundedSeqs(SampleResolved, MaxRefs)
          /\ pmap = [imports |-> EmptyImports]
          /\ pphase = "resolved"
       \/ /\ ptext = ""
          /\ pstmts = <<>>
          /\ presolved = <<>>
          /\ pmap \in SampleImportmaps
          /\ pphase = "map"

\* parseImports applied to a text; an exception leaves no list behind
PParse ==
    /\ pphase = "text"
    /\ \E parsed \in {parseImports(ptext)} :
          /\ pstmts' = IF parsed.throws THEN <<>> ELSE parsed.imports
          /\ pphase' = IF parsed.throws THEN "threw" ELSE "input"
    /\ UNCHANGED <<presolved, pmap, pbase, pwarnings, perrors, ptext>>
    /\ UNCHANGED appVars

PResolve ==
    /\ pphase = "input"
    /\ presolved' = resolveImports(pstmts, DEFAULT_CDN_CONFIG)
    /\ pphase' = "resolved"
    /\ UNCHANGED <<pstmts, pmap, pbase, pwarnings, perrors, ptext>>
    /\ UNCHANGED appVars

PGenerate(includeBase) ==
    /\ pphase = "resolved"
    /\ pmap' = generateImportmap(presolved, includeBase)
    /\ pbase' = includeBase
    /\ pphase' = "built"
    /\ UNCHANGED <<pstmts, presolved, pwarnings, perrors, ptext>>
    /\ UNCHANGED appVars

PCheck ==
    /\ pphase = "built"
    /\ pwarnings' = checkVersionConflicts(presolved)
    /\ pphase' = "checked"
    /\ UNCHANGED <<pstmts, presolved, pmap, pbase, perrors, ptext>>
    /\ UNCHANGED appVars

PValidate ==
    /\ pphase = "map"
    /\ perrors' = validateImportmap(pmap)
    /\ pphase' = "validated"
    /\ UNCHANGED <<pstmts, presolved, pmap, pbase, pwarnings, ptext>>
    /\ UNCHANGED appVars

NextPure ==
    \/ PParse
    \/ PResolve
    \/ \E includeBase \in BOOLEAN : PGenerate(includeBase)
    \/ PCheck
    \/ PValidate

SpecPure == InitPure /\ [][NextPure]_vars

(***************************************************************************)
(* Properties                                                              *)
(***************************************************************************)
Executed == ExecPosts(toIframe)

ReadyPosts == SelectSeq(Executed, LAMBDA m : m.trigger = "ready")

\* C1: a message event whose origin differs from the host's own origin makes no
\* listener act: nothing is posted to the sandbox or to the opener and the
\* ready flag, the error, the console log and the pending camera id keep their
\* values.
C1_ForeignOriginIgnored ==
    [][(nEvents' = nEvents + 1 /\ lastOrigin' # HostOrigin)
         => UNCHANGED <<toIframe, toOpener, isIframeReady, error, consoleMessages,
                        pendingCameraNodeId>>]_vars

\* C2: an executeCode message has been posted only if a same-origin 'ready'
\* message was received before, and a step that leaves the host not ready posts
\* no executeCode, suspends no run and starts none.
C2_ExecuteOnlyWhenReady ==
    /\ [](Executed # <<>> => isIframeReady /\ handshakes > 0)
    /\ [][~isIframeReady' => /\ ExecPosts(toIframe') = Executed
                             /\ runs' = runs
                             /\ nStarted' = nStarted]_vars

\* edits made before the handshake posted nothing; the handshake posted once
C2_Witness ==
    /\ nEdits > 0
    /\ nStarted = 1
    /\ handshakes = 1
    /\ Len(Executed) = 1

\* C3: the handshake is answered by exactly one executeCode message, which
\* carries the text current when the handshake arrived; no message ever carries
\* a text that was current only before the handshake.
C3_SingleSlotPendingRun ==
    /\ [](/\ Len(ReadyPosts) <= 1
          /\ \A i \in 1..Len(ReadyPosts) : ReadyPosts[i].code = readyCode
          /\ \A i \in 1..Len(Executed) : Executed[i].code \in sinceReady)
    /\ (handshakes > 0 ~> Len(ReadyPosts) = 1)

\* two edits, then the handshake, then its single executeCode
C3_Witness ==
    /\ nEdits = 2
    /\ nStarted = 1
    /\ Len(ReadyPosts) = 1
    /\ ReadyPosts[1].code = code

C5_InvocationPostsCurrentText ==
    [][(/\ nCmd' = nCmd + 1
        /\ isIframeReady
        /\ ~(Len(toIframe') = Len(toIframe) + 1 /\ toIframe'[Len(toIframe')].type = "captureCanvas"))
         => \/ /\ Len(toIframe') = Len(toIframe) + 1
               /\ toIframe'[Len(toIframe')].type = "executeCode"
               /\ toIframe'[Len(toIframe')].code = code
            \/ /\ Len(runs') = Len(runs) + 1
               /\ runs'[Len(runs')].code = code]_vars

C6_TextsWithoutImport ==
    {text \in Texts : ~parseImports(text).throws /\ parseImports(text).imports = <<>>}

\* C6: a text in which parseImports finds no import is posted without an
\* importmap, and neither resolveImports nor generateImportmap ran for it.
C6_NoImportsNoImportmap ==
    /\ \A i \in 1..Len(Executed) :
          Executed[i].code \in C6_TextsWithoutImport
             => ~Executed[i].hasImportmap /\ ~Executed[i].resolved
    /\ \A i \in 1..Len(runs) : runs[i].code \notin C6_TextsWithoutImport

\* the text whose only import sits in a block comment has been posted
C6_Witness ==
    \E i \in 1..Len(Executed) : Executed[i].code = TxtPlain /\ ~Executed[i].hasImportmap

\* C7: an import whose normalized name is 'three' or lies under 'three/' resolves
\* to the use-existing sentinel with version 0.157.0, and the generator adds no
\* entry for it to the derived part of the map.
C7_BundledDeferred ==
    (pphase \in {"resolved", "built", "checked"} /\ Len(pstmts) = Len(presolved))
       => \A i \in 1..Len(pstmts) :
             LET n == normalizePackageName(pstmts[i].source)
             IN (~n.throws /\ (n.name = "three" \/ StartsWith(n.name, "three/")))
                   => /\ presolved[i].url = "<use-existing-importmap>"
                      /\ presolved[i].version = "0.157.0"
                      /\ (pphase # "resolved" /\ ~pbase) => n.name \notin DOMAIN pmap.imports
                      /\ (pphase # "resolved" /\ pbase /\ n.name \in DOMAIN pmap.imports)
                            => pmap.imports[n.name] = BASE_IMPORTMAP.imports[n.name]

\* a CDN URL of a three addon was resolved and the derived map built
C7_Witness ==
    /\ pphase = "built"
    /\ ~pbase
    /\ \E i \in 1..Len(pstmts) :
          /\ pstmts[i].isUrl
          /\ presolved[i].packageName = "three/addons/controls/OrbitControls.js"

\* C8: generateImportmap(resolved, true) keeps every baseline key with its
\* baseline URL.
C8_BaselineKept ==
    (pphase \in {"built", "checked"} /\ pbase)
       => \A k \in {"three", "three/addons/", "gsap", "lil-gui"} :
             /\ k \in DOMAIN pmap.imports
             /\ pmap.imports[k] = BASE_IMPORTMAP.imports[k]

\* a reference named like a baseline key, with a URL of its own, was merged
C8_Witness ==
    /\ pphase = "built"
    /\ pbase
    /\ \E i \in 1..Len(presolved) :
          presolved[i].packageName = "gsap" /\ presolved[i].url = "https://unpkg.com/gsap@3.1.0"

C9_Collides(key) ==
    key \in {"three", "three/addons/", "gsap", "lil-gui"} \/ StartsWith(key, "three/addons/")

\* C9: no derived entry has a key that equals a baseline key or starts with the
\* baseline key 'three/addons/': such a key is in the map only as the baseline
\* entry itself, and not at all when includeBase is false.
C9_NoCollidingDerivedKey ==
    pphase \in {"built", "checked"}
       => \A k \in DOMAIN pmap.imports :
             C9_Collides(k) => /\ pbase
                               /\ k \in DOMAIN BASE_IMPORTMAP.imports
                               /\ pmap.imports[k] = BASE_IMPORTMAP.imports[k]

\* a reference under 'three/addons/' with a URL of its own was offered
C9_Witness ==
    /\ pphase = "built"
    /\ ~pbase
    /\ \E i \in 1..Len(presolved) :
          /\ presolved[i].packageName = "three/addons/x.js"
          /\ presolved[i].url = "https://evil.example/x.js"

C10_Versions(pkg) == {presolved[i].version : i \in {j \in 1..Len(presolved) : presolved[j].packageName = pkg}}

C10_ConflictWarnings(pkg) ==
    {i \in 1..Len(pwarnings) : StartsWith(pwarnings[i], "Version conflict for \"" \o pkg \o "\": ")}

\* C10: checkVersionConflicts returns exactly one 'Version conflict' warning for
\* each package that occurs with more than one distinct version, and it lists
\* all of them; a package with a single version gets none, and every conflict
\* warning is about such a package.
C10_OneWarningPerConflict ==
    pphase = "checked"
       => /\ \A pkg \in {presolved[i].packageName : i \in 1..Len(presolved)} :
                IF Cardinality(C10_Versions(pkg)) > 1
                THEN /\ Cardinality(C10_ConflictWarnings(pkg)) = 1
                     /\ \A i \in C10_ConflictWarnings(pkg) :
                           \A v \in C10_Versions(pkg) : Includes(pwarnings[i], v)
                ELSE C10_ConflictWarnings(pkg) = {}
          /\ \A i \in 1..Len(pwarnings) :
                StartsWith(pwarnings[i], "Version conflict")
                   => \E j \in 1..Len(presolved) :
                         i \in C10_ConflictWarnings(presolved[j].packageName)

\* three references to one package, two of them with the same version
C10_Witness ==
    /\ pphase = "checked"
    /\ Len(presolved) = 3
    /\ Cardinality({presolved[i].packageName : i \in 1..Len(presolved)}) = 1
    /\ Cardinality({presolved[i].version : i \in 1..Len(presolved)}) = 2
    /\ Len(pwarnings) = 1

C11_Usable(i) == presolved[i].url \notin {UseExisting, ResolutionFailed}

\* C11: when references with a usable URL share a name that does not collide with
\* the baseline and differ in version, the map built from them maps the name to
\* the URL of the first of them.
C11_FirstSeenAuthoritative ==
    pphase \in {"built", "checked"}
       => \A i \in 1..Len(presolved) :
             (/\ C11_Usable(i)
              /\ ~C9_Collides(presolved[i].packageName)
              /\ \A h \in 1..(i - 1) :
                    C11_Usable(h) => presolved[h].packageName # presolved[i].packageName
              /\ \E j \in (i + 1)..Len(presolved) :
                    /\ C11_Usable(j)
                    /\ presolved[j].packageName = presolved[i].packageName
                    /\ presolved[j].version # presolved[i].version)
                => pmap.imports[presolved[i].packageName] = presolved[i].url

\* C12: resolveImports returns one reference per import statement, in input
\* order: the position of a statement whose resolution throws holds the
\* '<resolution-failed>' placeholder for that statement, and every other
\* position holds what resolveCDN returns for its statement alone.
C12_OneResultPerImport ==
    (pphase # "input" /\ pstmts # <<>>)
       => /\ Len(presolved) = Len(pstmts)
          /\ \A i \in 1..Len(pstmts) :
                IF resolveCDN(pstmts[i], DEFAULT_CDN_CONFIG).throws
                THEN /\ presolved[i].url = "<resolution-failed>"
                     /\ presolved[i].originalSource = pstmts[i].source
                ELSE presolved[i] = resolveCDN(pstmts[i], DEFAULT_CDN_CONFIG).res

\* a batch whose first statement fails to resolve and whose later ones resolve
C12_Witness ==
    /\ pphase = "resolved"
    /\ Len(pstmts) = 3
    /\ presolved[1].url = "<resolution-failed>"
    /\ presolved[2].url = "https://cdn.skypack.dev/lodash"
    /\ presolved[3].url = "<use-existing-importmap>"

\* C13: the importmap of every executeCode message posted to the sandbox has no
\* validation error: validateImportmap returns no error for it.
C13_PostedImportmapValid ==
    \A i \in 1..Len(Executed) :
        Executed[i].hasImportmap => validateImportmap([imports |-> Executed[i].importmap]) = {}

C14_BadValue(value) == ~StartsWith(value, "http://") /\ ~StartsWith(value, "https://")

\* C14: validateImportmap returns at least one error for a map that has a value
\* not starting with 'http://' or 'https://' (the empty string included), and no
\* error for a map whose keys are all non-blank and whose values all start with
\* 'http://' or 'https://'.
C14_ValidateRejectsBadValues ==
    pphase = "validated"
       => /\ (\E k \in DOMAIN pmap.imports : C14_BadValue(pmap.imports[k])) => perrors # {}
          /\ (\A k \in DOMAIN pmap.imports : Trim(k) # "" /\ ~C14_BadValue(pmap.imports[k]))
                => perrors = {}

\* a map whose only defect is one empty value was validated
C14_Witness ==
    /\ pphase = "validated"
    /\ DOMAIN pmap.imports = {"lodash", "gsap"}
    /\ pmap.imports["lodash"] = ""
    /\ pmap.imports["gsap"] = "http://unpkg.com/gsap"
    /\ Cardinality(perrors) = 1

C15_FailureMessages ==
    {data \in BridgeMessages :
        /\ ~data.isNull
        /\ data.type \in {"canvasCaptured", "cameraState"}
        /\ data.payload.error # ""}

\* C15: when the sandbox reports canvasCaptured or cameraState with an error and
\* the opener that asked is open (for cameraState: a request is pending), the
\* host posts a result to the opener.
C15_FailureForwarded ==
    [][\A data \in C15_FailureMessages :
          (/\ openerOpen
           /\ data.type = "cameraState" => pendingCameraNodeId # ""
           /\ Receive(HostOrigin, data))
             => Len(toOpener') > Len(toOpener)]_vars

C16_Forwarded(posts) == {k \in 1..Len(posts) : posts[k].type = "cameraState"}

\* C16: the slot holds nothing or the nodeId of the latest getCamera request, and
\* every cameraState posted to the opener carries the nodeId of the latest
\* getCamera request received: a request overwritten before its response is
\* never answered under its own nodeId.
C16_LatestRequestWins ==
    /\ [](pendingCameraNodeId # "" =>
            /\ cameraRequests # <<>>
            /\ pendingCameraNodeId = cameraRequests[Len(cameraRequests)])
    /\ [][\A k \in C16_Forwarded(toOpener') \ C16_Forwarded(toOpener) :
            /\ cameraRequests # <<>>
            /\ toOpener'[k].nodeId = cameraRequests[Len(cameraRequests)]]_vars

C16_Witness ==
    /\ cameraRequests = <<"n1", "n2">>
    /\ pendingCameraNodeId = ""
    /\ C16_Forwarded(toOpener) # {}
    /\ \A k \in C16_Forwarded(toOpener) : toOpener[k].nodeId = "n2"

\* the hosts the sandbox is documented to load modules from
CDN_ALLOWLIST == {"cdn.jsdelivr.net", "cdn.skypack.dev", "unpkg.com", "esm.sh"}

C17_Hostname(url) ==
    LET rest == UrlRest(url)
    IN SubSeq(rest, 1, UrlAuthorityEnd(rest) - 1)

\* C17: every URL of an importmap posted to the sandbox names a host of the
\* CDN allow-list.
C17_PostedHostsAllowed ==
    \A i \in 1..Len(Executed) :
        Executed[i].hasImportmap =>
            \A key \in DOMAIN Executed[i].importmap :
                C17_Hostname(Executed[i].importmap[key]) \in CDN_ALLOWLIST

C18_Malformed ==
    {data \in BridgeMessages :
        \/ data.isNull
        \/ data.type = "unknown"
        \/ data.type = "console" /\ (~data.payload.present \/ ~data.payload.argsIsArray)}

\* C18: a malformed message of the host's own origin (no data, an unknown type,
\* a console message without payload or without an args array) is dropped: no
\* exception is raised and isIframeReady, error and consoleMessages keep their
\* values.
C18_MalformedDropped ==
    [][\A data \in C18_Malformed :
          Receive(HostOrigin, data) =>
              /\ uncaught' = uncaught
              /\ UNCHANGED <<isIframeReady, error, consoleMessages>>]_vars

\* C19: parseImports is total: for every text a run has parsed it returned,
\* without throwing, a sequence of imports whose sources are non-empty.
C19_ParseImportsTotal ==
    \A i \in 1..Len(Executed) :
        LET parsed == pipeline[Executed[i].code].parsed
        IN /\ ~parsed.throws
           /\ \A k \in 1..Len(parsed.imports) : parsed.imports[k].source # ""

C20_RequestsOtherThree(importStmt) ==
    /\ ~normalizePackageName(importStmt.source).throws
    /\ normalizePackageName(importStmt.source).name = "three"
    /\ importStmt.version \notin {"", BundledVersion, "latest"}

\* C20: when an import of 'three' asks for a version other than 0.157.0, the
\* warnings checkVersionConflicts computes from resolveImports' output hold a
\* 'Three.js version mismatch' warning.
C20_ThreeMismatchWarned ==
    (pphase = "checked" /\ \E i \in 1..Len(pstmts) : C20_RequestsOtherThree(pstmts[i]))
        => \E k \in 1..Len(pwarnings) : StartsWith(pwarnings[k], "Three.js version mismatch")

C21_HostState == <<code, isIframeReady, error, consoleMessages, pendingCameraNodeId,
                   openerOpen, toIframe, toOpener, runs, cmdRunCode>>

\* C21: isIframeReady becomes TRUE only in a step that handles a 'ready'
\* message of the host's own origin, never becomes FALSE again, and a 'ready'
\* message handled while already ready changes nothing of the host's state:
\* no run is started and no executeCode is posted.
C21_ReadyOnceByHandshake ==
    /\ [][(~isIframeReady /\ isIframeReady')
            => (lastOrigin' = HostOrigin /\ handshakes' = handshakes + 1)]_vars
    /\ [][isIframeReady => isIframeReady']_vars
    /\ [][(isIframeReady /\ handshakes' = handshakes + 1)
            => UNCHANGED <<C21_HostState, nStarted>>]_vars

C21_Witness ==
    /\ isIframeReady
    /\ handshakes = 2
    /\ nStarted = 1
    /\ Len(Executed) + Len(runs) = 1

C22_PlainPackage(importStmt) ==
    /\ ~importStmt.isUrl
    /\ importStmt.source # "three"
    /\ ~StartsWith(importStmt.source, "three/")

\* C22: for a reference that is no URL and names neither 'three' nor something
\* under 'three/', resolveImports under the default configuration yields
\* packageName = source, version 'latest', cdn 'skypack' and the url
\* 'https://cdn.skypack.dev/' followed by the source and nothing more.
C22_PlainPackageOnPrimaryCdn ==
    (pphase \in {"resolved", "built", "checked"} /\ pstmts # <<>>) =>
        \A i \in 1..Len(pstmts) :
            C22_PlainPackage(pstmts[i]) =>
                /\ presolved[i].packageName = pstmts[i].source
                /\ presolved[i].version = "latest"
                /\ presolved[i].cdn = "skypack"
                /\ presolved[i].url = "https://cdn.skypack.dev/" \o pstmts[i].source

C22_Witness ==
    /\ pphase = "resolved"
    /\ Len(pstmts) = 2
    /\ pstmts[1].source = "lodash"
    /\ pstmts[2].source = "lodash@4.0.0"
    /\ presolved[1].url = "https://cdn.skypack.dev/lodash"
    /\ presolved[2].url = "https://cdn.skypack.dev/lodash@4.0.0"

C23_Shape(importStmt) ==
    IF importStmt.type = "default" /\ importStmt.specifiers = <<>>
    THEN "side-effect" ELSE importStmt.type

C23_Shapes(source) ==
    {C23_Shape(pstmts[i]) : i \in {k \in 1..Len(pstmts) : pstmts[k].source = source}}

\* C23: the list parseImports returns holds no two entries of the same source
\* and shape, and one entry for each shape a source is imported in: the default
\* import and the side-effect import of 'a' give two entries.
C23_OneEntryPerSourceAndShape ==
    (ptext # "" /\ pphase \in {"input", "resolved", "built", "checked"}) =>
        /\ \A i, j \in 1..Len(pstmts) :
              (pstmts[i].source = pstmts[j].source /\ C23_Shape(pstmts[i]) = C23_Shape(pstmts[j]))
                 => i = j
        /\ ptext = TxtSameShape => Len(pstmts) = 1
        /\ ptext = TxtAllShapes => C23_Shapes("a") = {"namespace", "named", "default"}
        /\ ptext = TxtTwoShapes => C23_Shapes("a") = {"default", "side-effect"}

C24_BaselineResolves(name) ==
    \/ name \in DOMAIN BASE_IMPORTMAP.imports
    \/ \E key \in DOMAIN BASE_IMPORTMAP.imports : EndsWith(key, "/") /\ StartsWith(name, key)

\* C24: every reference resolveImports answers with the
\* '<use-existing-importmap>' sentinel has a name the baseline importmap
\* resolves: a baseline key, or a name under a baseline key ending in '/'.
C24_SentinelOnlyForBaselineNames ==
    (pphase \in {"resolved", "built", "checked"} /\ pstmts # <<>>) =>
        \A i \in 1..Len(presolved) :
            presolved[i].url = UseExisting => C24_BaselineResolves(presolved[i].packageName)

C25_Reset == Data("reset", NoPayload)

C25_StartedWith(text) ==
    /\ nStarted' = nStarted + 1
    /\ \/ /\ runs' = runs
          /\ Len(toIframe') = Len(toIframe) + 1
          /\ toIframe'[Len(toIframe')].type = "executeCode"
          /\ toIframe'[Len(toIframe')].code = text
          /\ toIframe'[Len(toIframe')].trigger = "reset"
       \/ /\ toIframe' = toIframe
          /\ Len(runs') = Len(runs) + 1
          /\ runs'[Len(runs')].code = text
          /\ runs'[Len(runs')].trigger = "reset"

\* C25: a 'reset' message of the host's own origin handled while ready starts
\* a run of the source text current at that moment (posted at once, or after
\* its imports are resolved), whatever edits came before; handled while not
\* ready it starts nothing.  Every executeCode of a reset run carries the text
\* the run was started with.
C25_ResetRunsCurrentCode ==
    /\ [][Receive(HostOrigin, C25_Reset) =>
            IF isIframeReady THEN C25_StartedWith(code)
            ELSE UNCHANGED <<toIframe, runs, nStarted>>]_vars
    /\ [][\A i \in 1..Len(runs) :
            (runs[i].trigger = "reset" /\ FinishRun(i)) =>
                /\ Len(toIframe') = Len(toIframe) + 1
                /\ toIframe'[Len(toIframe')].type = "executeCode"
                /\ toIframe'[Len(toIframe')].code = runs[i].code]_vars

C25_Witness ==
    /\ nEdits = 2
    /\ code # readyCode
    /\ \E i \in 1..Len(Executed) :
          /\ Executed[i].trigger = "reset"
          /\ Executed[i].code = code
          /\ Executed[i].resolved

C26_RunsText(text) ==
    \/ /\ Len(toIframe') = Len(toIframe) + 1
       /\ toIframe'[Len(toIframe')].type = "executeCode"
       /\ toIframe'[Len(toIframe')].code = text
    \/ /\ Len(runs') = Len(runs) + 1
       /\ runs'[Len(runs')].code = text

\* C26: Cmd/Ctrl+R invoked once the handshake has been received runs the
\* editor's current source text: an executeCode carrying it is posted, at once
\* or after its imports are resolved.
C26_CmdRunsCurrentText ==
    [][(isIframeReady /\ CmdR) => C26_RunsText(code)]_vars

\* C27: a captureCanvas message has been posted to the sandbox only if the
\* 'ready' handshake has been received.
C27_CaptureOnlyWhenReady ==
    (\E i \in 1..Len(toIframe) : toIframe[i].type = "captureCanvas") => isIframeReady

C28_Forwards(posts, origin) ==
    Cardinality({k \in 1..Len(posts) :
                    posts[k].type = "cameraState" /\ posts[k].targetOrigin = origin})

\* C28: a cameraState is forwarded to the opener only while a getCamera request
\* is pending, and the forward empties the slot: towards each FlowBoard origin
\* the cameraState messages posted never outnumber the getCamera requests
\* received.
C28_ForwardNeedsRequest ==
    /\ [](\A k \in 1..Len(FLOWBOARD_ORIGINS) :
            C28_Forwards(toOpener, FLOWBOARD_ORIGINS[k]) <= Len(cameraRequests))
    /\ [][(\E k \in 1..Len(FLOWBOARD_ORIGINS) :
              C28_Forwards(toOpener', FLOWBOARD_ORIGINS[k]) > C28_Forwards(toOpener, FLOWBOARD_ORIGINS[k]))
            => (pendingCameraNodeId # "" /\ pendingCameraNodeId' = "")]_vars
    /\ [][(pendingCameraNodeId' # "" /\ pendingCameraNodeId' # pendingCameraNodeId)
            => Len(cameraRequests') = Len(cameraRequests) + 1]_vars

C28_Witness ==
    /\ Len(cameraRequests) = 1
    /\ pendingCameraNodeId = ""
    /\ nEvents = 3
    /\ \A k \in 1..Len(FLOWBOARD_ORIGINS) : C28_Forwards(toOpener, FLOWBOARD_ORIGINS[k]) = 1

C29_Origins == {FLOWBOARD_ORIGINS[k] : k \in 1..Len(FLOWBOARD_ORIGINS)}

C29_Types(posts) == {posts[k].type : k \in 1..Len(posts)}

\* C29: every message posted to window.opener (status, pong, capture,
\* cameraState, shaderResult) names a target origin of FLOWBOARD_ORIGINS, never
\* '*', and is posted only while the opener is there and not closed.
C29_OpenerPostsTargeted ==
    /\ (toOpener # <<>> => openerOpen)
    /\ [](\A k \in 1..Len(toOpener) :
            /\ toOpener[k].targetOrigin \in C29_Origins
            /\ toOpener[k].targetOrigin # "*"
            /\ toOpener[k].type \in {"status", "pong", "capture", "cameraState", "shaderResult"})
    /\ [][toOpener' # toOpener => openerOpen]_vars

C29_Witness ==
    /\ ~openerOpen
    /\ nEvents = 3
    /\ C29_Types(toOpener) = {"status", "pong", "capture", "shaderResult"}

\* C30: every step that changes the source text (an edit, a reset to the
\* default code) leaves the error state cleared.
C30_CodeChangeClearsError ==
    [][code' # code => error' = ""]_vars

====
